---- MODULE Spec2Model ----
(***************************************************************************)
(* Model of the query layer of rodPro (query.go): the bounded retry loop   *)
(* NewRetry, Page.Search built on it with SearchResult.Release, the        *)
(* RaceContext combinator, Page.ElementByJS and Page.ElementsByJS.         *)
(*                                                                         *)
(* One behaviour is one call made by the application on a page: NewRetry   *)
(* with a user function, Page.Search (and the Release of its result), a    *)
(* RaceContext built and run, Page.ElementByJS or Page.ElementsByJS.       *)
(* Remote protocol calls, the user function and the Sleeper are the        *)
(* environment: every outcome they can produce is drawn with \E.  Every    *)
(* call made is appended to the history variable calls, so that the        *)
(* properties can speak about what was called, in which order and with     *)
(* which outcome.                                                          *)
(***************************************************************************)
EXTENDS Integers, Sequences, FiniteSets, TLC

\* ------------------------------------------------------------------ bounds
\* Largest MaxRetries handed to a direct NewRetry call.
MaxN == 3
\* Largest ResultCount a DOMPerformSearch reply carries.
MaxCount == 2
\* Largest node identifier a DOMGetSearchResults reply carries.
MaxNodeID == 2
\* Largest number of branches registered on one RaceContext.
MaxBranches == 2
\* Number of ticks of RaceContext.Do that are explored.
MaxTicks == 2
\* Largest number of own properties of an evaluated array.
MaxProps == 4
\* Largest number of evaluations one Page.ElementByJS call is followed for.
MaxPolls == 3

\* --------------------------------------------------------------- constants
\* Page.Search giving up one attempt early.
SearchMaxRetries_TwoAttempts == 3 - 1

\* MaxRetries that Page.Search passes to NewRetry.
SearchMaxRetries == 3

\* A nil error / nil pointer.
Nil == "nil"
\* cdp.ErrCtxNotFound and cdp.ErrSearchSessionNotFound.
ErrCtxNotFound == "ErrCtxNotFound"
ErrSearchSessionNotFound == "ErrSearchSessionNotFound"
\* Any other error of a remote call.
ErrProtocol == "ErrProtocol"
\* The error a failing Sleeper returns (cancelled or expired context).
ErrCanceled == "context.Canceled"
\* An error returned by the user function given to NewRetry.
ErrFn == "ErrFn"
\* rod.ErrElementNotFound and an error returned by a race callback.
ErrElementNotFound == "ErrElementNotFound"
ErrCallback == "ErrCallback"

\* Errors a remote call can fail with.
RemoteErrs == {ErrCtxNotFound, ErrSearchSessionNotFound, ErrProtocol}
\* Outcomes of one Sleeper wait.
SleeperOutcomes == {Nil, ErrCanceled}

\* The condition functions the application can register; the handle a
\* condition resolves to is named after it.
Conds == {"A", "B"}

\* What one condition yields when evaluated: a handle (Nil error), the
\* not-found error, or another error.
CondOutcomes == {Nil, ErrElementNotFound, ErrProtocol}

\* The remote document during one tick: the outcome of every condition.
Worlds == [Conds -> CondOutcomes]

\* rod.ErrExpectElement and rod.ErrExpectElements.
ErrExpectElement == "ErrExpectElement"
ErrExpectElements == "ErrExpectElements"

\* Subtype tags of the remote object an evaluation yields.
Subtypes == {"null", "node", "array", "other"}

\* Own properties of a remote array: the name is "__proto__", "length" or
\* that of an item; the value is node-typed or not.  The remote object of
\* the k-th property is identified by k, that of the array by ArrayID.
PropNames == {"__proto__", "length", "item"}
Props == [name : PropNames, subtype : {"node", "other"}]
PropLists == UNION {[1..n -> Props] : n \in 0..MaxProps}
ArrayID == 0

VARIABLES
    call,       \* the entry point that was called: "idle" before the call
    pc,         \* position inside the running call
    options,    \* RetryOptions of the running NewRetry (MaxRetries)
    i,          \* loop counter of NewRetry
    returned,   \* TRUE once the call has returned
    err,        \* the error the call returned
    calls,      \* history: every call made to fn, Sleeper and the remote side
    sr,         \* the SearchResult built by Page.Search
    retSr,      \* the *SearchResult Page.Search returned: Nil or "sr"
    nextID,     \* remote side: next search session identifier
    branches,   \* RaceContext.branches
    world,      \* remote side: what each race condition yields on each tick
    tick,       \* number of the running tick of RaceContext.Do
    el,         \* the *Element of RaceContext.Do: <<>> is nil
    ctx,        \* the context of the page: "live" or "cancelled" at the call
    res,        \* the remote object the last Evaluate of the call yielded
    props,      \* remote side: the own properties of the evaluated array
    elems,      \* the handles ElementByJS / ElementsByJS returned: <<>> is none
    sleeper     \* the Sleeper of the page the call runs on: "default" or "NotFound"

vars == <<call, pc, options, i, returned, err, calls, sr, retSr, nextID,
          branches, world, tick, el, ctx, res, props, elems, sleeper>>

retryVars == <<options, i>>
searchVars == <<sr, retSr, nextID>>
raceVars == <<branches, world, tick, el>>
evalVars == <<ctx, res, props, elems>>

\* One entry of the history.
Ev(op, at, id, n, e) == [op |-> op, at |-> at, id |-> id, n |-> n, err |-> e]

\* Positions of the history entries of one operation.
Idx(op) == {k \in DOMAIN calls : calls[k].op = op}
Count(op) == Cardinality(Idx(op))

\* The SearchResult as built on entry of Page.Search: no embedded
\* DOMPerformSearchResult (<<>>), no First (<<>>), restore recorded.
NewSearchResult == [DOMPerformSearchResult |-> <<>>, First |-> <<>>, restore |-> TRUE]

Init ==
    /\ call = "idle"
    /\ pc = "idle"
    /\ options = [MaxRetries |-> 0]
    /\ i = 0
    /\ returned = FALSE
    /\ err = Nil
    /\ calls = <<>>
    /\ sr = NewSearchResult
    /\ retSr = Nil
    /\ nextID = 1
    /\ branches = <<>>
    /\ world = [c \in Conds |-> ErrElementNotFound]
    /\ tick = 0
    /\ el = <<>>
    /\ ctx = "live"
    /\ res = "none"
    /\ props = <<>>
    /\ elems = <<>>
    /\ sleeper = "default"

\* What the Sleeper of the page can answer under context c: a cancelled or
\* expired context makes every wait fail.
SleeperUnder(c) == IF c = "cancelled" THEN {ErrCanceled} ELSE SleeperOutcomes

\* The Sleeper of the page itself handed to the branch.
BranchSleeper_PageSleeper == "default"

\* branch.condition(rc.page.Sleeper(NotFoundSleeper)): the Sleeper of the
\* page RaceContext.Do hands to every branch condition.
BranchSleeper == "NotFound"

\* What one wait answers on a page with Sleeper pol under context c: the
\* NotFound Sleeper never waits and fails at once with ErrElementNotFound.
SleeperOf(pol, c) ==
    IF pol = "NotFound" THEN {ErrElementNotFound} ELSE SleeperUnder(c)

\* ---------------------------------------------------------------- NewRetry
\* The loop test written with <= : one attempt too many.
LoopTest_OffByOne(k, max) == k <= max

\* for i := 0; i < options.MaxRetries; i++  -- the loop test.
LoopTest(k, max) == k < max

\* NewRetry ignoring the stop signal of fn.
AfterFn_IgnoreStop(stop) == "sleep"

\* Position after fn returned (stop, _): return, or go on to the Sleeper.
AfterFn(stop) == IF stop THEN "done" ELSE "sleep"

\* NewRetry dropping the error of the Sleeper.
AfterSleep_IgnoreErr(k, max, e) ==
    IF k + 1 < max THEN "fn" ELSE "done"

\* Position after the Sleeper returned e: return e, or i++ and the loop test.
AfterSleep(k, max, e) ==
    IF e # Nil THEN "done"
    ELSE IF LoopTest(k + 1, max) THEN "fn" ELSE "done"

\* The SearchResult returned together with an error.
SearchReturn_Always(e) == "sr"

\* What Page.Search returns once NewRetry returned e.
SearchReturn(e) == IF e # Nil THEN Nil ELSE "sr"

\* The application calls NewRetry(options, fn) with MaxRetries = n.
CallNewRetry ==
    /\ call = "idle"
    /\ \E n \in 0..MaxN :
        /\ options' = [MaxRetries |-> n]
        /\ pc' = IF LoopTest(0, n) THEN "fn" ELSE "done"
        /\ returned' = ~LoopTest(0, n)
    /\ call' = "NewRetry"
    /\ i' = 0
    /\ err' = Nil
    /\ UNCHANGED <<calls, searchVars, raceVars, evalVars, sleeper>>

\* One invocation of the user function fn by NewRetry.
RetryFn ==
    /\ call = "NewRetry"
    /\ pc = "fn"
    /\ \E stop \in BOOLEAN, e \in {Nil, ErrFn} :
        /\ calls' = Append(calls, Ev("fn", i, 0, IF stop THEN 1 ELSE 0, e))
        /\ pc' = AfterFn(stop)
        /\ returned' = (AfterFn(stop) = "done")
        /\ err' = IF stop THEN e ELSE Nil
    /\ UNCHANGED <<call, options, i, searchVars, raceVars, evalVars, sleeper>>

\* One Sleeper wait of NewRetry, for a direct call and for Page.Search.
RetrySleep ==
    /\ call \in {"NewRetry", "Search"}
    /\ pc = "sleep"
    /\ \E e \in SleeperOf(sleeper, ctx) :
        /\ calls' = Append(calls, Ev("Sleeper", i, 0, 0, e))
        /\ pc' = AfterSleep(i, options.MaxRetries, e)
        /\ returned' = (AfterSleep(i, options.MaxRetries, e) = "done")
        /\ err' = e
        /\ i' = IF e = Nil THEN i + 1 ELSE i
        /\ retSr' = IF call = "Search" /\ AfterSleep(i, options.MaxRetries, e) = "done"
                    THEN SearchReturn(e) ELSE retSr
    /\ UNCHANGED <<call, options, sr, nextID, raceVars, evalVars, sleeper>>

\* ------------------------------------------------------------- Page.Search
\* Replies of the remote side to DOMPerformSearch: an error, or a new search
\* session with its result count.
PerformReplies(id) ==
    {[err |-> e, SearchID |-> 0, ResultCount |-> 0] : e \in RemoteErrs}
    \cup {[err |-> Nil, SearchID |-> id, ResultCount |-> c] : c \in 0..MaxCount}

\* Replies to DOMGetSearchResults{FromIndex: 0, ToIndex: 1}: an error, or the
\* identifier of the one node in the range; 0 is the identifier the browser
\* gives after its document was replaced.
GetReplies ==
    {[err |-> e, NodeIds |-> <<>>] : e \in RemoteErrs}
    \cup {[err |-> Nil, NodeIds |-> <<n>>] : n \in 0..MaxNodeID}

\* Outcomes of Page.ElementFromNode.
NodeReplies == {Nil} \cup RemoteErrs

\* The previous search never discarded.
HasPrevious_Never(s) == FALSE

\* if sr.DOMPerformSearchResult != nil
HasPrevious(s) == s.DOMPerformSearchResult # <<>>

\* Only one of the two transient errors recognised.
IsTransient_OnlyCtx(e) == e = ErrCtxNotFound

\* errors.Is(err, cdp.ErrCtxNotFound) || errors.Is(err, cdp.ErrSearchSessionNotFound)
IsTransient(e) == e \in {ErrCtxNotFound, ErrSearchSessionNotFound}

\* The check of the node identifier left out.
IsSentinel_Never(id) == FALSE

\* if id == 0
IsSentinel(id) == id = 0

\* The discard issued at the start of an attempt; its error is dropped.
DiscardPrevious(s, at) ==
    IF HasPrevious(s)
    THEN <<Ev("DOMDiscardSearchResults", at, s.DOMPerformSearchResult[1].SearchID, 0, Nil)>>
    ELSE <<>>

\* The record of the first search kept on later attempts.
Store_KeepFirst(s, ps) ==
    IF s.DOMPerformSearchResult # <<>> THEN s
    ELSE [s EXCEPT !.DOMPerformSearchResult =
             <<[SearchID |-> ps.SearchID, ResultCount |-> ps.ResultCount]>>]

\* sr.DOMPerformSearchResult = res
Store(s, ps) ==
    [s EXCEPT !.DOMPerformSearchResult =
        <<[SearchID |-> ps.SearchID, ResultCount |-> ps.ResultCount]>>]

\* One run of the function Page.Search gives to NewRetry, on SearchResult s,
\* in attempt at, with the replies ps, gs, en of the remote side.  Yields the
\* SearchResult afterwards, (stop, err) and the calls made, in order.
SearchFn(s, at, ps, gs, en) ==
    LET pre == DiscardPrevious(s, at) \o
               <<Ev("DOMPerformSearch", at, ps.SearchID, ps.ResultCount, ps.err)>>
        s1 == Store(s, ps)
        get == Ev("DOMGetSearchResults", at, ps.SearchID,
                  IF gs.err = Nil THEN gs.NodeIds[1] ELSE 0, gs.err)
    IN  IF ps.err # Nil
        THEN [sr |-> s, stop |-> TRUE, err |-> ps.err, evs |-> pre]
        ELSE IF ps.ResultCount = 0
        THEN [sr |-> s1, stop |-> FALSE, err |-> Nil, evs |-> pre]
        ELSE IF gs.err # Nil
        THEN IF IsTransient(gs.err)
             THEN [sr |-> s1, stop |-> FALSE, err |-> Nil, evs |-> pre \o <<get>>]
             ELSE [sr |-> s1, stop |-> TRUE, err |-> gs.err, evs |-> pre \o <<get>>]
        ELSE IF IsSentinel(gs.NodeIds[1])
        THEN [sr |-> s1, stop |-> FALSE, err |-> Nil,
              evs |-> pre \o <<get, Ev("DOMGetDocument", at, 0, 0, Nil)>>]
        ELSE IF en # Nil
        THEN [sr |-> s1, stop |-> TRUE, err |-> en,
              evs |-> pre \o <<get, Ev("ElementFromNode", at, gs.NodeIds[1], 0, en)>>]
        ELSE [sr |-> [s1 EXCEPT !.First = <<gs.NodeIds[1]>>], stop |-> TRUE, err |-> Nil,
              evs |-> pre \o <<get, Ev("ElementFromNode", at, gs.NodeIds[1], 0, Nil)>>]

\* Page.Search(query) is called, by the application on its page or by a
\* race branch (RaceContext.Search) on the page RaceContext.Do hands it: the
\* SearchResult is built, the DOM domain is enabled and NewRetry is entered
\* with MaxRetries = 3 and the Sleeper of that page.
CallSearch ==
    /\ call = "idle"
    /\ call' = "Search"
    /\ sr' = NewSearchResult
    /\ calls' = Append(calls, Ev("DOMEnable", 0, 0, 0, Nil))
    /\ options' = [MaxRetries |-> SearchMaxRetries]
    /\ i' = 0
    /\ pc' = IF LoopTest(0, SearchMaxRetries) THEN "fn" ELSE "done"
    /\ returned' = ~LoopTest(0, SearchMaxRetries)
    /\ retSr' = IF LoopTest(0, SearchMaxRetries) THEN Nil ELSE SearchReturn(Nil)
    /\ sleeper' \in {"default", BranchSleeper}
    /\ UNCHANGED <<err, nextID, raceVars, evalVars>>

\* One attempt of Page.Search: NewRetry invokes the search function.
SearchAttempt ==
    /\ call = "Search"
    /\ pc = "fn"
    /\ \E ps \in PerformReplies(nextID), gs \in GetReplies, en \in NodeReplies :
        LET r == SearchFn(sr, i, ps, gs, en) IN
        /\ sr' = r.sr
        /\ calls' = calls \o r.evs
        /\ nextID' = IF ps.err = Nil THEN nextID + 1 ELSE nextID
        /\ pc' = AfterFn(r.stop)
        /\ returned' = (AfterFn(r.stop) = "done")
        /\ err' = IF r.stop THEN r.err ELSE Nil
        /\ retSr' = IF AfterFn(r.stop) = "done" THEN SearchReturn(r.err) ELSE Nil
    /\ UNCHANGED <<call, options, i, raceVars, evalVars, sleeper>>

\* ------------------------------------------------------------- RaceContext
\* Every result of a condition taken for not-found.
IsNotFound_Always(e) == TRUE

\* Every condition error taken for not-found.
IsNotFound_AnyError(e) == e # Nil

\* errors.Is(err, &ErrElementNotFound{})
IsNotFound(e) == e = ErrElementNotFound

\* The last branch whose condition does not report not-found, not the first.
Evaluate_LastMatch(bs, w, k) ==
    LET hits == {j \in k..Len(bs) : ~IsNotFound(w[bs[j].condition])}
    IN  IF hits = {} THEN 0 ELSE CHOOSE j \in hits : \A h \in hits : h <= j

\* The first branch is passed over when there are others.
Evaluate_SkipFirst(bs, w, k) ==
    LET hits == {j \in (k + 1)..Len(bs) : w[bs[j].condition] # ErrElementNotFound}
    IN  IF hits = {} THEN 0 ELSE CHOOSE j \in hits : \A h \in hits : j <= h

\* for _, branch := range rc.branches: the index of the first branch from k
\* on whose condition does not report not-found, which ends the tick; 0 when
\* every branch reports not-found.
RECURSIVE Evaluate(_, _, _)
Evaluate(bs, w, k) ==
    IF k > Len(bs) THEN 0
    ELSE IF ~IsNotFound(w[bs[k].condition]) THEN k
    ELSE Evaluate(bs, w, k + 1)

\* The callback of every branch up to the winner is invoked.
Callback_EveryBranch(bs, k, t, e) ==
    [j \in 1..k |-> Ev("callback", t, j, 0, e)]

\* if branch.callback != nil { err = branch.callback(el) }: the callback
\* invocation of the winning branch k, returning e.
Callback(bs, k, t, e) ==
    IF bs[k].callback # Nil THEN <<Ev("callback", t, k, 0, e)>> ELSE <<>>

\* The error of the callback dropped.
WinErr_Dropped(bs, k, e) == Nil

\* return true, err after a condition succeeded: the error of the callback
\* of the winning branch k when it has one, else the nil error of the condition.
WinErr(bs, k, e) == IF bs[k].callback # Nil THEN e ELSE Nil

\* One run of the function RaceContext.Do gives to Retry: tick t over the
\* branches bs in the world w; e is what the callback returns if invoked.
\* Yields (stop, err), the element assigned to el and the calls made.
RaceFn(bs, w, t, e) ==
    LET k == Evaluate(bs, w, 1)
        last == IF k = 0 THEN Len(bs) ELSE k
        conds == [j \in 1..last |-> Ev("condition", t, j, 0, w[bs[j].condition])]
    IN  IF k = 0
        THEN [stop |-> FALSE, err |-> Nil, el |-> <<>>, evs |-> conds]
        ELSE IF w[bs[k].condition] = Nil
        THEN [stop |-> TRUE,
              err |-> WinErr(bs, k, e),
              el |-> <<bs[k].condition>>,
              evs |-> conds \o Callback(bs, k, t, e)]
        ELSE [stop |-> TRUE, err |-> w[bs[k].condition], el |-> <<>>, evs |-> conds]

\* The application calls Page.Race(): a RaceContext without branches.
CallRace ==
    /\ call = "idle"
    /\ call' = "Race"
    /\ pc' = "build"
    /\ branches' = <<>>
    /\ UNCHANGED <<options, i, returned, err, calls, searchVars, world, tick, el, evalVars, sleeper>>

\* RaceContext.ElementFunc(fn): a branch without callback is appended.
ElementFunc ==
    /\ call = "Race"
    /\ pc = "build"
    /\ Len(branches) < MaxBranches
    /\ \E c \in Conds :
        branches' = Append(branches, [condition |-> c, callback |-> Nil])
    /\ UNCHANGED <<call, pc, options, i, returned, err, calls, searchVars, world, tick, el, evalVars, sleeper>>

\* RaceContext.Handle(callback): the callback of the most recent branch is
\* set; without any branch the index is out of range and the call panics.
Handle ==
    /\ call = "Race"
    /\ pc = "build"
    /\ IF Len(branches) = 0
       THEN /\ pc' = "panic"
            /\ UNCHANGED branches
       ELSE /\ branches' = [branches EXCEPT ![Len(branches)].callback = "callback"]
            /\ UNCHANGED pc
    /\ UNCHANGED <<call, options, i, returned, err, calls, searchVars, world, tick, el, evalVars, sleeper>>

\* RaceContext.Do(): el is nil and the polling loop is entered.
Do ==
    /\ call = "Race"
    /\ pc = "build"
    /\ pc' = "fn"
    /\ tick' = 1
    /\ el' = <<>>
    /\ world' \in Worlds
    /\ UNCHANGED <<call, options, i, returned, err, calls, searchVars, branches, evalVars, sleeper>>

\* One tick of RaceContext.Do: every branch is evaluated in order.
RaceTick ==
    /\ call = "Race"
    /\ pc = "fn"
    /\ \E e \in {Nil, ErrCallback} :
        LET r == RaceFn(branches, world, tick, e) IN
        /\ calls' = calls \o r.evs
        /\ el' = IF r.el # <<>> THEN r.el ELSE el
        /\ pc' = IF r.stop THEN "done" ELSE "sleep"
        /\ returned' = r.stop
        /\ err' = IF r.stop THEN r.err ELSE Nil
    /\ UNCHANGED <<call, options, i, searchVars, branches, world, tick, evalVars, sleeper>>

\* The wait of the polling loop between two ticks: a failing Sleeper ends Do
\* with its error; otherwise the next tick starts, on a document that may
\* have changed.
RaceSleep ==
    /\ call = "Race"
    /\ pc = "sleep"
    /\ \E e \in SleeperOutcomes :
        /\ e = Nil => tick < MaxTicks
        /\ calls' = Append(calls, Ev("Sleeper", tick, 0, 0, e))
        /\ pc' = IF e # Nil THEN "done" ELSE "fn"
        /\ returned' = (e # Nil)
        /\ err' = e
        /\ tick' = IF e = Nil THEN tick + 1 ELSE tick
        /\ IF e = Nil THEN world' \in Worlds ELSE world' = world
    /\ UNCHANGED <<call, options, i, searchVars, branches, el, evalVars, sleeper>>

\* ------------------------------------------------------- Page.ElementsByJS
\* Only "__proto__" is skipped.
IsSkipped_OnlyProto(name) == name = "__proto__"

\* if obj.Name == "__proto__" || obj.Name == "length" { continue }
IsSkipped(name) == name \in {"__proto__", "length"}

\* The deferred release left out.
Deferred_Never(rel) == <<>>

\* defer func() { err = p.Release(res) }(): the release of the array, run
\* when the call returns; its result rel reaches no returned value.
Deferred(rel) == <<Ev("Release", 0, ArrayID, 0, rel)>>

\* for _, obj := range list.Result: the enumeration from property k on, with
\* the handles acc made so far and the calls evs made so far.  ElementFromObject
\* fails with fe on property failAt, if it gets there.
RECURSIVE Enumerate(_, _, _, _, _, _)
Enumerate(ps, k, failAt, fe, acc, evs) ==
    IF k > Len(ps)
    THEN [elems |-> acc, err |-> Nil, evs |-> evs]
    ELSE IF IsSkipped(ps[k].name)
    THEN Enumerate(ps, k + 1, failAt, fe, acc, evs)
    ELSE IF ps[k].subtype # "node"
    THEN [elems |-> <<>>, err |-> ErrExpectElements, evs |-> evs]
    ELSE IF k = failAt
    THEN [elems |-> <<>>, err |-> fe,
          evs |-> Append(evs, Ev("ElementFromObject", 0, k, 0, fe))]
    ELSE Enumerate(ps, k + 1, failAt, fe, Append(acc, k),
                   Append(evs, Ev("ElementFromObject", 0, k, 0, Nil)))

\* Page.ElementsByJS when Evaluate yields (subtype, ee), RuntimeGetProperties
\* yields (ps, ge), ElementFromObject fails with fe on property failAt and
\* Release yields rel: the handles and the error returned, the calls made.
ElementsByJSFn(subtype, ee, ps, ge, failAt, fe, rel) ==
    LET eval == <<Ev("Evaluate", 0, 0, 0, ee)>>
        get == <<Ev("RuntimeGetProperties", 0, ArrayID, 0, ge)>>
        loop == Enumerate(ps, 1, failAt, fe, <<>>, <<>>)
    IN  IF ee # Nil
        THEN [elems |-> <<>>, err |-> ee, evs |-> eval]
        ELSE IF subtype # "array"
        THEN [elems |-> <<>>, err |-> ErrExpectElements, evs |-> eval]
        ELSE IF ge # Nil
        THEN [elems |-> <<>>, err |-> ge, evs |-> eval \o get \o Deferred(rel)]
        ELSE [elems |-> loop.elems, err |-> loop.err,
              evs |-> eval \o get \o loop.evs \o Deferred(rel)]

\* The application calls Page.ElementsByJS(opts): one evaluation, no polling.
CallElementsByJS ==
    /\ call = "idle"
    /\ call' = "ElementsByJS"
    /\ pc' = "done"
    /\ returned' = TRUE
    /\ \E subtype \in Subtypes, ee \in {Nil, ErrProtocol} :
        /\ res' = IF ee = Nil THEN subtype ELSE "none"
        /\ \E ps \in (IF ee = Nil /\ subtype = "array" THEN PropLists ELSE {<<>>}),
              ge \in {Nil, ErrProtocol}, rel \in {Nil, ErrProtocol} :
            \E failAt \in 0..Len(ps) :
                LET r == ElementsByJSFn(subtype, ee, ps, ge, failAt, ErrProtocol, rel) IN
                /\ props' = ps
                /\ elems' = r.elems
                /\ err' = r.err
                /\ calls' = calls \o r.evs
    /\ UNCHANGED <<options, i, searchVars, raceVars, ctx, sleeper>>

\* -------------------------------------------------------- Page.ElementByJS
\* The null object taken for a final value.
IsNull_Never(subtype) == FALSE

\* res.Type == RuntimeRemoteObjectTypeObject && res.Subtype == ...SubtypeNull
IsNull(subtype) == subtype = "null"

\* An array taken for a node.
IsNode_OrArray(subtype) == subtype \in {"node", "array"}

\* res.Subtype != proto.RuntimeRemoteObjectSubtypeNode, negated
IsNode(subtype) == subtype = "node"

\* One run of the function Page.ElementByJS gives to Retry, when Evaluate
\* yields (subtype, ee): (stop, err).
ElementFn(subtype, ee) ==
    IF ee # Nil THEN [stop |-> TRUE, err |-> ee]
    ELSE IF IsNull(subtype) THEN [stop |-> FALSE, err |-> Nil]
    ELSE [stop |-> TRUE, err |-> Nil]

\* Page.ElementByJS after Retry returned e with the value of type subtype in
\* res, ElementFromObject yielding fe: the handle and error returned and
\* the calls made.  The handle is named by the object identifier 1.
ElementReturn(e, subtype, fe) ==
    IF e # Nil THEN [elems |-> <<>>, err |-> e, evs |-> <<>>]
    ELSE IF ~IsNode(subtype)
    THEN [elems |-> <<>>, err |-> ErrExpectElement, evs |-> <<>>]
    ELSE [elems |-> IF fe = Nil THEN <<1>> ELSE <<>>, err |-> fe,
          evs |-> <<Ev("ElementFromObject", 0, 1, 0, fe)>>]

\* Page.ElementByJS(opts) is called, by the application on its page or by a
\* race branch (RaceContext.Element, ElementX, ElementR, ElementByJS) on the
\* page RaceContext.Do hands it; the context is live or already cancelled.
CallElementByJS ==
    /\ call = "idle"
    /\ call' = "ElementByJS"
    /\ pc' = "fn"
    /\ ctx' \in {"live", "cancelled"}
    /\ sleeper' \in {"default", BranchSleeper}
    /\ UNCHANGED <<options, i, returned, err, calls, searchVars, raceVars,
                   res, props, elems>>

\* One evaluation of Page.ElementByJS; when it ends the polling, the rest of
\* ElementByJS runs and the call returns.
ElementEval ==
    /\ call = "ElementByJS"
    /\ pc = "fn"
    /\ \E subtype \in Subtypes, ee \in {Nil, ErrProtocol}, fe \in {Nil, ErrProtocol} :
        LET r == ElementFn(subtype, ee)
            out == ElementReturn(r.err, subtype, fe)
            eval == Ev("Evaluate", Count("Evaluate"), 0,
                       IF ee = Nil THEN subtype ELSE "none", ee)
        IN  /\ res' = IF ee = Nil THEN subtype ELSE res
            /\ pc' = IF r.stop THEN "done" ELSE "sleep"
            /\ returned' = r.stop
            /\ calls' = IF r.stop THEN Append(calls, eval) \o out.evs
                        ELSE Append(calls, eval)
            /\ err' = IF r.stop THEN out.err ELSE Nil
            /\ elems' = IF r.stop THEN out.elems ELSE <<>>
    /\ UNCHANGED <<call, options, i, searchVars, raceVars, ctx, props, sleeper>>

\* The wait of the polling loop of Page.ElementByJS: a failing Sleeper ends
\* the call with its error, otherwise the expression is evaluated again.
ElementSleep ==
    /\ call = "ElementByJS"
    /\ pc = "sleep"
    /\ \E e \in SleeperOf(sleeper, ctx) :
        /\ e = Nil => Count("Evaluate") < MaxPolls
        /\ calls' = Append(calls, Ev("Sleeper", Count("Evaluate"), 0, 0, e))
        /\ pc' = IF e # Nil THEN "done" ELSE "fn"
        /\ returned' = (e # Nil)
        /\ err' = IF e # Nil THEN ElementReturn(e, res, Nil).err ELSE Nil
        /\ elems' = IF e # Nil THEN ElementReturn(e, res, Nil).elems ELSE elems
    /\ UNCHANGED <<call, options, i, searchVars, raceVars, ctx, res, props, sleeper>>

\* ---------------------------------------------------- SearchResult.Release
\* The application calls Release on the SearchResult that Page.Search
\* returned: the restore action runs, then the held session is discarded.
\* SearchID is read through the embedded *DOMPerformSearchResult; were that
\* nil, the read would panic after restore ran.  Calls made outside the
\* attempts of Search carry the attempt number -1.
Release ==
    /\ call = "Search"
    /\ pc = "done"
    /\ retSr = "sr"
    /\ IF sr.DOMPerformSearchResult = <<>>
       THEN /\ pc' = "panic"
            /\ calls' = Append(calls, Ev("restore", -1, 0, 0, Nil))
       ELSE /\ pc' = "released"
            /\ calls' = calls \o
                 <<Ev("restore", -1, 0, 0, Nil),
                   Ev("DOMDiscardSearchResults", -1,
                      sr.DOMPerformSearchResult[1].SearchID, 0, Nil)>>
    /\ UNCHANGED <<call, options, i, returned, err, searchVars, raceVars, evalVars, sleeper>>

Next ==
    \/ CallNewRetry
    \/ RetryFn
    \/ RetrySleep
    \/ CallSearch
    \/ SearchAttempt
    \/ CallRace
    \/ ElementFunc
    \/ Handle
    \/ Do
    \/ RaceTick
    \/ RaceSleep
    \/ CallElementsByJS
    \/ CallElementByJS
    \/ ElementEval
    \/ ElementSleep
    \/ Release

Spec == Init /\ [][Next]_vars

\* The same system when every enabled step is eventually taken: each remote
\* call, each call of fn and each Sleeper wait returns.
FairSpec == Spec /\ WF_vars(Next)

\* ------------------------------------------------------------ properties
\* History entries of fn, of the Sleeper and of the remote search calls.
FnIdx == Idx("fn")
SleepIdx == Idx("Sleeper")
PerformIdx == Idx("DOMPerformSearch")
GetIdx == Idx("DOMGetSearchResults")
DiscardIdx == Idx("DOMDiscardSearchResults")
NodeIdx == Idx("ElementFromNode")

\* Every Sleeper wait so far succeeded.
SleeperNeverFailed == \A k \in SleepIdx : calls[k].err = Nil

\* C1: NewRetry with MaxRetries = N >= 1, a Sleeper that always succeeds and
\* an fn that always returns (false, nil) has, when it returns, invoked fn
\* exactly N times, waited on the Sleeper exactly N-1 times and returns nil.
C1_ExhaustionCounts ==
    (/\ call = "NewRetry"
     /\ returned
     /\ options.MaxRetries >= 1
     /\ \A k \in FnIdx : calls[k].n = 0 /\ calls[k].err = Nil
     /\ SleeperNeverFailed)
    => /\ Cardinality(FnIdx) = options.MaxRetries
       /\ Cardinality(SleepIdx) = options.MaxRetries - 1
       /\ err = Nil

\* C2: when fn returns stop=true in a NewRetry call, that is on an attempt
\* k <= MaxRetries, it is the last thing NewRetry does: fn was invoked exactly
\* k times, the Sleeper waited exactly k-1 times (never, for k = 1), and
\* NewRetry has returned the err of fn unchanged.
C2_StopReturnsAtOnce ==
    call = "NewRetry" =>
        \A p \in FnIdx : calls[p].n = 1 =>
            /\ p = Len(calls)
            /\ returned
            /\ err = calls[p].err
            /\ Cardinality(FnIdx) = calls[p].at + 1
            /\ Cardinality(FnIdx) <= options.MaxRetries
            /\ Cardinality(SleepIdx) = calls[p].at
            /\ SleeperNeverFailed

\* C2 witness: fn stopped on attempt 2 with a non-nil error, after one wait.
C2_Witness ==
    /\ call = "NewRetry"
    /\ returned
    /\ Cardinality(FnIdx) = 2
    /\ Cardinality(SleepIdx) = 1
    /\ calls[Len(calls)].op = "fn"
    /\ calls[Len(calls)].n = 1
    /\ err = ErrFn

\* C3: when a Sleeper wait of NewRetry fails, NewRetry has returned exactly
\* that failure and nothing was called after the failed wait.
C3_SleeperFailureReturns ==
    call = "NewRetry" =>
        \A p \in SleepIdx : calls[p].err # Nil =>
            /\ p = Len(calls)
            /\ returned
            /\ err = calls[p].err

\* C3 witness: the second wait failed, after two invocations of fn.
C3_Witness ==
    /\ call = "NewRetry"
    /\ returned
    /\ Cardinality(SleepIdx) = 2
    /\ Cardinality(FnIdx) = 2
    /\ calls[Len(calls)].op = "Sleeper"
    /\ calls[Len(calls)].err = ErrCanceled
    /\ err = ErrCanceled

\* C4: a Page.Search whose every DOMPerformSearch yields ResultCount = 0 and
\* whose Sleeper never fails returns (sr, nil) with sr non-nil and
\* sr.First == nil after exactly 3 DOMPerformSearch calls, and no
\* DOMDiscardSearchResults precedes the first DOMPerformSearch.
C4_ZeroResults ==
    (/\ call = "Search"
     /\ returned
     /\ \A k \in PerformIdx : calls[k].err = Nil /\ calls[k].n = 0
     /\ SleeperNeverFailed)
    => /\ retSr = "sr"
       /\ err = Nil
       /\ sr.First = <<>>
       /\ Cardinality(PerformIdx) = 3
       /\ \A d \in DiscardIdx : \E k \in PerformIdx : k < d

\* C4 witness: such a search has returned, with discards on the later attempts.
C4_Witness ==
    /\ call = "Search"
    /\ returned
    /\ \A k \in PerformIdx : calls[k].err = Nil /\ calls[k].n = 0
    /\ SleeperNeverFailed
    /\ Cardinality(PerformIdx) = 3
    /\ Cardinality(DiscardIdx) = 2

\* C5: in Page.Search a DOMGetSearchResults reply whose node identifier is 0
\* is followed at once by DOMGetDocument and then by the retry path (the
\* Sleeper, not a return), and sr.First is never made from identifier 0.
C5_SentinelRefreshes ==
    call = "Search" =>
        /\ sr.First # <<0>>
        /\ \A k \in NodeIdx : calls[k].id # 0
        /\ \A p \in GetIdx : (calls[p].err = Nil /\ calls[p].n = 0) =>
            /\ p + 1 <= Len(calls)
            /\ calls[p + 1].op = "DOMGetDocument"
            /\ (p + 1 = Len(calls) => pc = "sleep" /\ ~returned)
            /\ (p + 2 <= Len(calls) => calls[p + 2].op = "Sleeper")

\* C5 witness: attempt 1 got ResultCount > 0 and node identifier 0, and the
\* search went on to a second attempt that found a node.
C5_Witness ==
    /\ call = "Search"
    /\ returned
    /\ \E p \in GetIdx : calls[p].at = 0 /\ calls[p].err = Nil /\ calls[p].n = 0
    /\ Cardinality(Idx("DOMGetDocument")) = 1
    /\ Cardinality(PerformIdx) = 2
    /\ sr.First # <<>>

\* A failure that ends Page.Search: any failure of DOMPerformSearch or of
\* ElementFromNode, and a failure of DOMGetSearchResults other than "context
\* not found" and "search session not found".
IsFatalEntry(e) ==
    /\ e.err # Nil
    /\ \/ e.op \in {"DOMPerformSearch", "ElementFromNode"}
       \/ /\ e.op = "DOMGetSearchResults"
          /\ e.err \notin {ErrCtxNotFound, ErrSearchSessionNotFound}

\* C6: in Page.Search a DOMGetSearchResults failure classified "context not
\* found" or "search session not found" leads to the retry path and Search
\* never returns it; any other failure of DOMPerformSearch,
\* DOMGetSearchResults or ElementFromNode is the last call of the Search,
\* which has returned (nil, that error).
C6_ErrorClassification ==
    call = "Search" =>
        /\ \A p \in GetIdx :
              calls[p].err \in {ErrCtxNotFound, ErrSearchSessionNotFound} =>
                /\ (p = Len(calls) => pc = "sleep" /\ ~returned)
                /\ (p < Len(calls) => calls[p + 1].op = "Sleeper")
        /\ \A p \in DOMAIN calls : IsFatalEntry(calls[p]) =>
              /\ p = Len(calls)
              /\ returned
              /\ err = calls[p].err
              /\ retSr = Nil
        /\ (returned /\ err # Nil) =>
              /\ retSr = Nil
              /\ \/ IsFatalEntry(calls[Len(calls)])
                 \/ calls[Len(calls)].op = "Sleeper"

\* C6 witness: attempt 1 failed with "search session not found", attempt 2
\* with a protocol error, which Search returned.
C6_Witness ==
    /\ call = "Search"
    /\ returned
    /\ err = ErrProtocol
    /\ \E p \in GetIdx : calls[p].at = 0 /\ calls[p].err = ErrSearchSessionNotFound
    /\ \E p \in GetIdx : calls[p].at = 1 /\ calls[p].err = ErrProtocol

\* The attempts of Page.Search that ended in a retry signal: zero results,
\* a transient failure of DOMGetSearchResults, or node identifier 0.
RetriedAttempts ==
    {calls[k].at : k \in {p \in PerformIdx : calls[p].err = Nil /\ calls[p].n = 0}}
    \cup {calls[k].at : k \in {p \in GetIdx :
              calls[p].err \in {ErrCtxNotFound, ErrSearchSessionNotFound}}}
    \cup {calls[k].at : k \in {p \in GetIdx : calls[p].err = Nil /\ calls[p].n = 0}}

\* C7: a Page.Search whose 3 attempts all ended in a retry signal returns a
\* non-nil SearchResult with First == nil and a nil error.
C7_ExhaustionIsNotAnError ==
    (call = "Search" /\ returned /\ Cardinality(RetriedAttempts) = 3)
    => /\ retSr = "sr"
       /\ sr.First = <<>>
       /\ err = Nil

\* C8: Page.Search never makes more than 3 DOMPerformSearch and 3
\* DOMGetSearchResults calls, and once called it returns, whatever the remote
\* side and the Sleeper answer.
C8_SearchTerminates ==
    /\ [](call = "Search" =>
            /\ Cardinality(PerformIdx) <= 3
            /\ Cardinality(GetIdx) <= 3)
    /\ ((call = "Search") ~> returned)

\* C8 witness: a Search that returned after 3 attempts, each reaching
\* DOMGetSearchResults.
C8_Witness ==
    /\ call = "Search"
    /\ returned
    /\ Cardinality(PerformIdx) = 3
    /\ Cardinality(GetIdx) = 3

\* History entries of race condition evaluations and callback invocations.
CondIdx == Idx("condition")
CallbackIdx == Idx("callback")

\* The condition of branch b yields a handle in the world of the running tick.
Succeeds(b) == world[branches[b].condition] = Nil

\* C9: when RaceContext.Do has returned on a tick where the conditions of
\* two registered branches a < b would both yield a handle (and every branch
\* before a reports not-found), Do has returned the handle of a, the branch
\* registered first; b was not evaluated on that tick and its callback was
\* never invoked.  This holds for either registration order of two conditions.
C9_FirstRegisteredWins ==
    (call = "Race" /\ pc = "done") =>
        \A a \in DOMAIN branches, b \in DOMAIN branches :
            (/\ a < b
             /\ Succeeds(a)
             /\ Succeeds(b)
             /\ \A j \in 1..(a - 1) : IsNotFound(world[branches[j].condition]))
            => /\ el = <<branches[a].condition>>
               /\ \A k \in CallbackIdx : calls[k].id # b
               /\ \A k \in CondIdx : ~(calls[k].at = tick /\ calls[k].id = b)

\* C9 witness: B registered before A, both succeed on tick 1, B's handle is
\* returned (with A before B the same world returns A's handle).
C9_Witness ==
    /\ call = "Race"
    /\ pc = "done"
    /\ tick = 1
    /\ Len(branches) = 2
    /\ branches[1].condition = "B"
    /\ branches[2].condition = "A"
    /\ branches[2].callback # Nil
    /\ world["A"] = Nil
    /\ world["B"] = Nil
    /\ el = <<"B">>

\* C10: over a whole RaceContext.Do no branch's callback is invoked more
\* than once; and when Do has returned with branches [A, B] where A's
\* condition reported not-found on every evaluation and B's condition
\* succeeds on the last tick, Do returned B's handle, A's callback was never
\* invoked and B's callback, if it has one, was invoked exactly once.
C10_OnlyWinnerCallback ==
    call = "Race" =>
        /\ \A b \in DOMAIN branches :
              Cardinality({k \in CallbackIdx : calls[k].id = b}) <= 1
        /\ (/\ pc = "done"
            /\ Len(branches) = 2
            /\ \A k \in CondIdx : calls[k].id = 1 => IsNotFound(calls[k].err)
            /\ IsNotFound(world[branches[1].condition])
            /\ Succeeds(2))
           => /\ el = <<branches[2].condition>>
              /\ \A k \in CallbackIdx : calls[k].id = 2
              /\ Cardinality(CallbackIdx) = IF branches[2].callback # Nil THEN 1 ELSE 0

\* C10 witness: [A, B], both with a callback, A not found and B found on
\* tick 1; Do returned B's handle after invoking B's callback.
C10_Witness ==
    /\ call = "Race"
    /\ pc = "done"
    /\ tick = 1
    /\ Len(branches) = 2
    /\ branches[1] = [condition |-> "A", callback |-> "callback"]
    /\ branches[2] = [condition |-> "B", callback |-> "callback"]
    /\ IsNotFound(world["A"])
    /\ world["B"] = Nil
    /\ el = <<"B">>
    /\ Cardinality(CallbackIdx) = 1

\* C11: in RaceContext.Do a condition error other than not-found is the last
\* call of the race, whatever the position of its branch: Do has returned
\* that error with a nil handle, no later branch was evaluated, no callback
\* was invoked, and no Sleeper wait or tick followed.
C11_FatalConditionAborts ==
    call = "Race" =>
        \A p \in CondIdx : calls[p].err \notin {Nil, ErrElementNotFound} =>
            /\ p = Len(calls)
            /\ pc = "done"
            /\ returned
            /\ err = calls[p].err
            /\ el = <<>>
            /\ CallbackIdx = {}

\* C11 witness: on tick 2 the first of two branches failed with a protocol
\* error while the second, with a callback, would have succeeded.
C11_Witness ==
    /\ call = "Race"
    /\ pc = "done"
    /\ tick = 2
    /\ Len(branches) = 2
    /\ branches[2].callback # Nil
    /\ world[branches[1].condition] = ErrProtocol
    /\ world[branches[2].condition] = Nil
    /\ err = ErrProtocol

\* C12: a callback invocation is the last call of RaceContext.Do and the only
\* callback invocation: it directly follows the successful condition of its
\* own branch, Do has returned (the handle of that branch, the callback's
\* error); and whenever Do returned after a branch with a callback won, that
\* callback was invoked.
C12_CallbackOnceAndReturned ==
    call = "Race" =>
        /\ \A p \in CallbackIdx :
              /\ p = Len(calls)
              /\ Cardinality(CallbackIdx) = 1
              /\ pc = "done"
              /\ returned
              /\ err = calls[p].err
              /\ el = <<branches[calls[p].id].condition>>
              /\ p > 1
              /\ calls[p - 1].op = "condition"
              /\ calls[p - 1].id = calls[p].id
              /\ calls[p - 1].at = calls[p].at
              /\ calls[p - 1].err = Nil
        /\ (pc = "done" /\ \E p \in CondIdx :
                calls[p].err = Nil /\ branches[calls[p].id].callback # Nil)
           => Cardinality(CallbackIdx) = 1

\* C12 witness: the winning branch's callback failed; Do returned a non-nil
\* handle together with the callback's error.
C12_Witness ==
    /\ call = "Race"
    /\ pc = "done"
    /\ returned
    /\ el # <<>>
    /\ err = ErrCallback
    /\ Cardinality(CallbackIdx) = 1

\* History entries of the remote object calls.
ReleaseIdx == Idx("Release")
FromObjectIdx == Idx("ElementFromObject")

\* The properties of the evaluated array that are not named "__proto__" or
\* "length", in enumeration order.
Kept ==
    SelectSeq([k \in 1..Len(props) |-> k],
              LAMBDA k : props[k].name \notin {"__proto__", "length"})

\* C13: when Page.ElementsByJS got an array-typed value and returns handles
\* (a nil error), they are exactly the handles of the own properties not
\* named "__proto__" or "length", in enumeration order, and all of those are
\* node-typed; when one of those properties is not node-typed the call fails
\* and returns no handles.
C13_ElementsInOrder ==
    (call = "ElementsByJS" /\ returned /\ res = "array") =>
        /\ err = Nil =>
              /\ elems = Kept
              /\ \A j \in DOMAIN Kept : props[Kept[j]].subtype = "node"
        /\ (\E j \in DOMAIN Kept : props[Kept[j]].subtype # "node") =>
              /\ err # Nil
              /\ elems = <<>>

\* C13 witness: [__proto__, node, length (node-typed), node] gave the two
\* item handles.
C13_Witness ==
    /\ call = "ElementsByJS"
    /\ returned
    /\ res = "array"
    /\ err = Nil
    /\ Len(props) = 4
    /\ props[1].name = "__proto__"
    /\ props[3] = [name |-> "length", subtype |-> "node"]
    /\ elems = <<2, 4>>

\* C14: once Page.ElementsByJS has found the evaluated value array-typed, the
\* array's remote object is released exactly once by the time the call
\* returns, on success and on every failure, as the last call made; no
\* handle of an element is released, and nothing is released otherwise.
C14_ArrayReleasedOnce ==
    (call = "ElementsByJS" /\ returned) =>
        /\ \A k \in ReleaseIdx : calls[k].id = ArrayID /\ k = Len(calls)
        /\ Cardinality(ReleaseIdx) = IF res = "array" THEN 1 ELSE 0

\* C14 witness: the enumeration stopped midway on a failing materialization,
\* after one handle was made, and the array was released.
C14_Witness ==
    /\ call = "ElementsByJS"
    /\ returned
    /\ res = "array"
    /\ err = ErrProtocol
    /\ Cardinality(FromObjectIdx) = 2
    /\ Cardinality(ReleaseIdx) = 1

\* History entries of the evaluations.
EvalIdx == Idx("Evaluate")

\* C15 as claimed: a Page.ElementByJS started on a cancelled context has,
\* when it returns, failed with the cancellation error after at most one
\* evaluation.
C15_CancelledAlwaysFails ==
    (call = "ElementByJS" /\ ctx = "cancelled" /\ returned) =>
        /\ err = ErrCanceled
        /\ Cardinality(EvalIdx) <= 1

\* C15 amended: a Page.ElementByJS started on a cancelled context, on a page
\* with the default Sleeper, evaluates
\* the expression exactly once and never waits successfully; when that
\* evaluation yields the null object the call fails at once with the
\* cancellation error and no handle, and otherwise the Sleeper is not
\* consulted at all.
C15_CancelledOneEvaluation ==
    (call = "ElementByJS" /\ ctx = "cancelled" /\ sleeper = "default") =>
        /\ Cardinality(EvalIdx) <= 1
        /\ returned => Cardinality(EvalIdx) = 1
        /\ \A k \in SleepIdx : calls[k].err = ErrCanceled /\ k = Len(calls)
        /\ \A k \in EvalIdx : (calls[k].err = Nil /\ calls[k].n = "null") =>
              /\ k = Len(calls) => pc = "sleep" /\ ~returned
              /\ k < Len(calls) =>
                    /\ calls[k + 1].op = "Sleeper"
                    /\ returned
                    /\ err = ErrCanceled
                    /\ elems = <<>>
        /\ \A k \in EvalIdx : ~(calls[k].err = Nil /\ calls[k].n = "null") =>
              /\ returned
              /\ SleepIdx = {}

\* C15 witness: the one evaluation yielded null and the call failed with the
\* cancellation error.
C15_Witness ==
    /\ call = "ElementByJS"
    /\ ctx = "cancelled"
    /\ sleeper = "default"
    /\ returned
    /\ res = "null"
    /\ err = ErrCanceled
    /\ Cardinality(EvalIdx) = 1
    /\ Cardinality(SleepIdx) = 1

\* The polling of Page.ElementByJS: an evaluation yielding the null object
\* is followed by one Sleeper wait and, when that succeeds, by the next
\* evaluation; an evaluation error or any other value is the last
\* evaluation, no wait follows, and the call has returned, an evaluation
\* error with that error.
PollingProtocol ==
    \A k \in EvalIdx :
        IF calls[k].err = Nil /\ calls[k].n = "null"
        THEN /\ k = Len(calls) => pc = "sleep" /\ ~returned
             /\ k < Len(calls) => calls[k + 1].op = "Sleeper"
             /\ (k + 1 < Len(calls)) =>
                   calls[k + 1].err = Nil /\ calls[k + 2].op = "Evaluate"
        ELSE /\ returned
             /\ \A j \in EvalIdx \cup SleepIdx : j <= k
             /\ calls[k].err # Nil => k = Len(calls) /\ err = calls[k].err /\ elems = <<>>

\* C16 as claimed: the polling protocol, and once a value other than null
\* ended the polling the call returns a handle iff the value is node-typed
\* and otherwise fails with ErrExpectElement.
C16_HandleIffNode ==
    call = "ElementByJS" =>
        /\ PollingProtocol
        /\ \A k \in EvalIdx : (calls[k].err = Nil /\ calls[k].n # "null") =>
              /\ elems # <<>> <=> calls[k].n = "node"
              /\ elems = <<>> => err = ErrExpectElement

\* C16 amended: the polling protocol, and once a value other than null ended
\* the polling: a value that is not node-typed makes the call fail with
\* ErrExpectElement and nothing more is called; a node-typed value is
\* handed to ElementFromObject, and the call returns a handle iff that
\* succeeds, otherwise the error of ElementFromObject.
C16_PollingProtocol ==
    call = "ElementByJS" =>
        /\ PollingProtocol
        /\ \A k \in EvalIdx : (calls[k].err = Nil /\ calls[k].n # "null") =>
              IF calls[k].n = "node"
              THEN /\ Len(calls) = k + 1
                   /\ calls[k + 1].op = "ElementFromObject"
                   /\ err = calls[k + 1].err
                   /\ elems # <<>> <=> calls[k + 1].err = Nil
              ELSE /\ k = Len(calls)
                   /\ err = ErrExpectElement
                   /\ elems = <<>>

\* C16 witness: null, one wait, then a node: a handle is returned after two
\* evaluations.
C16_Witness ==
    /\ call = "ElementByJS"
    /\ returned
    /\ Cardinality(EvalIdx) = 2
    /\ Cardinality(SleepIdx) = 1
    /\ res = "node"
    /\ elems = <<1>>
    /\ err = Nil

\* History entries of the restore action.
RestoreIdx == Idx("restore")

\* C17: every SearchResult Page.Search returns holds a performed-search
\* record, so Release never panics on it; and a Release invokes restore
\* exactly once and then issues exactly one DOMDiscardSearchResults, for the
\* session the result holds.
C17_ReleaseIsSafe ==
    (call = "Search" /\ retSr = "sr") =>
        /\ sr.DOMPerformSearchResult # <<>>
        /\ pc # "panic"
        /\ pc # "released" => RestoreIdx = {}
        /\ pc = "released" =>
              /\ Cardinality(RestoreIdx) = 1
              /\ Cardinality({k \in DiscardIdx : calls[k].at = -1}) = 1
              /\ calls[Len(calls) - 1].op = "restore"
              /\ calls[Len(calls)].op = "DOMDiscardSearchResults"
              /\ calls[Len(calls)].id = sr.DOMPerformSearchResult[1].SearchID

\* C17 witness: Release ran on the result of an exhausted search, whose
\* First is nil.
C17_Witness ==
    /\ call = "Search"
    /\ pc = "released"
    /\ sr.First = <<>>
    /\ Cardinality(PerformIdx) = 3
    /\ \A k \in GetIdx : calls[k].err # Nil \/ calls[k].n = 0

\* Sessions created, and sessions a discard was issued for, by the first m
\* calls of the history.
Created(m) == {calls[k].id : k \in {p \in PerformIdx : p <= m /\ calls[p].err = Nil}}
Discarded(m) == {calls[k].id : k \in {p \in DiscardIdx : p <= m}}

\* C18: within one Page.Search the first attempt issues no discard; every
\* later attempt issues, directly before its DOMPerformSearch, a
\* DOMDiscardSearchResults for the session created by the previous attempt;
\* and at every point of the call at most one created session has no
\* discard issued.
C18_NoLeakAcrossRetries ==
    call = "Search" =>
        /\ \A d \in DiscardIdx : calls[d].at # 0
        /\ \A p \in PerformIdx : calls[p].at >= 1 =>
              /\ calls[p - 1].op = "DOMDiscardSearchResults"
              /\ calls[p - 1].at = calls[p].at
              /\ \E q \in PerformIdx :
                    /\ calls[q].at = calls[p].at - 1
                    /\ calls[q].err = Nil
                    /\ calls[q].id = calls[p - 1].id
        /\ \A m \in 0..Len(calls) : Cardinality(Created(m) \ Discarded(m)) <= 1

\* C18 witness: attempt 1 failed transiently, attempt 2 got node identifier
\* 0, attempt 3 searched again: two discards, one session left.
C18_Witness ==
    /\ call = "Search"
    /\ \E p \in GetIdx : calls[p].at = 0 /\ calls[p].err = ErrCtxNotFound
    /\ \E p \in GetIdx : calls[p].at = 1 /\ calls[p].err = Nil /\ calls[p].n = 0
    /\ Cardinality(Created(Len(calls))) = 3
    /\ Discarded(Len(calls)) = {1, 2}

\* C19: whenever Page.Search has returned, every session it created has a
\* discard issued or is the one held by the returned SearchResult, and the
\* SearchResult holding the restore action is returned.
C19_NothingLeftUnowned ==
    (call = "Search" /\ returned) =>
        /\ retSr = "sr"
        /\ \A id \in Created(Len(calls)) \ Discarded(Len(calls)) :
              /\ retSr = "sr"
              /\ sr.DOMPerformSearchResult # <<>>
              /\ sr.DOMPerformSearchResult[1].SearchID = id

\* The winner of the tick RaceContext.Do returned on, if any: the branch of
\* the last successful condition.
Won(b) == \E p \in CondIdx : calls[p].err = Nil /\ calls[p].id = b

\* C20: RaceContext.Do keeps no progress between ticks.  A branch after the
\* first is evaluated only directly after the branch before it reported
\* not-found on the same tick; the first branch is evaluated at the start of
\* Do and then only directly after one successful Sleeper wait that follows
\* a tick on which every branch reported not-found; so the branch that wins
\* is the first one in registration order that does not report not-found on
\* that tick, whatever happened on earlier ticks.
C20_NoProgressBetweenTicks ==
    call = "Race" =>
        /\ \A p \in CondIdx :
              IF calls[p].id > 1
              THEN /\ calls[p - 1].op = "condition"
                   /\ calls[p - 1].at = calls[p].at
                   /\ calls[p - 1].id = calls[p].id - 1
                   /\ calls[p - 1].err = ErrElementNotFound
              ELSE \/ p = 1 /\ calls[p].at = 1
                   \/ /\ p > 2
                      /\ calls[p - 1].op = "Sleeper"
                      /\ calls[p - 1].err = Nil
                      /\ calls[p - 1].at = calls[p].at - 1
                      /\ calls[p - 2].op = "condition"
                      /\ calls[p - 2].at = calls[p].at - 1
                      /\ calls[p - 2].id = Len(branches)
                      /\ calls[p - 2].err = ErrElementNotFound
        /\ \A k \in SleepIdx :
              Cardinality({p \in CondIdx : calls[p].at = calls[k].at}) = Len(branches)
        /\ \A b \in DOMAIN branches : (pc = "done" /\ Won(b)) =>
              /\ el = <<branches[b].condition>>
              /\ \A j \in 1..(b - 1) : world[branches[j].condition] = ErrElementNotFound

\* C20 witness: on tick 1 nothing matched; on tick 2 both branches would
\* succeed and the first one, which failed on tick 1, won.
C20_Witness ==
    /\ call = "Race"
    /\ pc = "done"
    /\ tick = 2
    /\ Len(branches) = 2
    /\ branches[1].condition # branches[2].condition
    /\ world[branches[1].condition] = Nil
    /\ world[branches[2].condition] = Nil
    /\ Won(1)
    /\ Cardinality(SleepIdx) = 1

\* C21: a lookup run as a race branch, that is on the page with the Sleeper
\* RaceContext.Do hands to its branches, never polls.  Page.ElementByJS makes
\* at most one evaluation, and when that yields null it returns
\* ErrElementNotFound right after the one failing wait; Page.Search makes at
\* most one DOMPerformSearch, and when that finds zero results it returns
\* (nil, ErrElementNotFound) right after the one failing wait.  In
\* RaceContext.Do a branch that reports not-found and is not the last one is
\* followed at once, on the same tick, by the condition of the next branch.
C21_BranchesFailFast ==
    /\ (call = "ElementByJS" /\ sleeper = BranchSleeper) =>
          /\ Cardinality(EvalIdx) <= 1
          /\ \A k \in EvalIdx : (calls[k].err = Nil /\ calls[k].n = "null") =>
                /\ k = Len(calls) => pc = "sleep" /\ ~returned
                /\ k < Len(calls) =>
                      /\ Len(calls) = k + 1
                      /\ calls[k + 1].op = "Sleeper"
                      /\ returned
                      /\ err = ErrElementNotFound
                      /\ elems = <<>>
    /\ (call = "Search" /\ sleeper = BranchSleeper) =>
          /\ Cardinality(PerformIdx) <= 1
          /\ \A k \in PerformIdx : (calls[k].err = Nil /\ calls[k].n = 0) =>
                /\ k = Len(calls) => pc = "sleep" /\ ~returned
                /\ k < Len(calls) =>
                      /\ Len(calls) = k + 1
                      /\ calls[k + 1].op = "Sleeper"
                      /\ returned
                      /\ err = ErrElementNotFound
                      /\ retSr = Nil
    /\ call = "Race" =>
          \A p \in CondIdx :
              (calls[p].err = ErrElementNotFound /\ calls[p].id < Len(branches)) =>
                  /\ p < Len(calls)
                  /\ calls[p + 1].op = "condition"
                  /\ calls[p + 1].at = calls[p].at
                  /\ calls[p + 1].id = calls[p].id + 1

\* C21 witness: a Page.Search on the page of a race branch found zero
\* results and returned ErrElementNotFound after one DOMPerformSearch.
C21_Witness ==
    /\ call = "Search"
    /\ sleeper = "NotFound"
    /\ returned
    /\ Cardinality(PerformIdx) = 1
    /\ calls[Len(calls) - 1].op = "DOMPerformSearch"
    /\ calls[Len(calls) - 1].n = 0
    /\ calls[Len(calls)].op = "Sleeper"
    /\ err = ErrElementNotFound

\* C22: RaceContext.Do waits on the Sleeper only while no branch has matched
\* (every condition evaluated so far reported not-found); when such a wait
\* fails, it is the last call of the race: Do has returned that failure with
\* a nil handle, no callback was invoked and no branch is evaluated after it.
C22_RaceCancellation ==
    call = "Race" =>
        \A p \in SleepIdx :
            /\ \A k \in CondIdx : k < p => calls[k].err = ErrElementNotFound
            /\ calls[p].err # Nil =>
                  /\ p = Len(calls)
                  /\ pc = "done"
                  /\ returned
                  /\ err = calls[p].err
                  /\ el = <<>>
                  /\ CallbackIdx = {}

\* C22 witness: two branches with callbacks, nothing matched on ticks 1 and
\* 2, and the wait after tick 2 failed.
C22_Witness ==
    /\ call = "Race"
    /\ pc = "done"
    /\ tick = 2
    /\ Len(branches) = 2
    /\ branches[1].callback # Nil
    /\ branches[2].callback # Nil
    /\ Cardinality(CondIdx) = 4
    /\ calls[Len(calls)].op = "Sleeper"
    /\ err = ErrCanceled
    /\ el = <<>>

\* The last DOMPerformSearch of the call.
LastPerform == CHOOSE p \in PerformIdx : \A q \in PerformIdx : q <= p

\* C23: a SearchResult returned by Page.Search holds the session identifier
\* and result count of the last DOMPerformSearch of the call, which
\* succeeded; and when First is non-nil, ResultCount > 0 and First was made
\* from the node identifier that a DOMGetSearchResults on that held session
\* returned, a session for which no discard had been issued by then.
C23_ResultConsistent ==
    (call = "Search" /\ retSr = "sr") =>
        /\ sr.DOMPerformSearchResult # <<>>
        /\ PerformIdx # {}
        /\ calls[LastPerform].err = Nil
        /\ calls[LastPerform].id = sr.DOMPerformSearchResult[1].SearchID
        /\ calls[LastPerform].n = sr.DOMPerformSearchResult[1].ResultCount
        /\ sr.First # <<>> =>
              /\ sr.DOMPerformSearchResult[1].ResultCount > 0
              /\ \E g \in GetIdx :
                    /\ g = LastPerform + 1
                    /\ calls[g].err = Nil
                    /\ calls[g].id = sr.DOMPerformSearchResult[1].SearchID
                    /\ calls[g].n = sr.First[1]
                    /\ calls[g].id \notin Discarded(g)
                    /\ calls[g + 1].op = "ElementFromNode"
                    /\ calls[g + 1].id = sr.First[1]
                    /\ calls[g + 1].err = Nil

\* C23 witness: two attempts were retried and discarded, the third found a
\* node: First comes from session 3, which the result holds.
C23_Witness ==
    /\ call = "Search"
    /\ retSr = "sr"
    /\ sr.First # <<>>
    /\ Cardinality(PerformIdx) = 3
    /\ sr.DOMPerformSearchResult[1].SearchID = 3
    /\ Discarded(Len(calls)) = {1, 2}
====
